---- MODULE Spec2Model ----
(***************************************************************************)
(* Model of the alerts-platform backend: the update controller and its     *)
(* background ingestion goroutines (internal/api/update.go), the paginated *)
(* tracker search (internal/services/jira_client.go) and the ingestion     *)
(* orchestrator with its store (internal/services/data_updater.go).        *)
(***************************************************************************)
EXTENDS Integers, Naturals, Sequences, FiniteSets, TLC

(***************************************************************************)
(* Bounds of the model.                                                    *)
(***************************************************************************)
\* number of background goroutines of TriggerUpdate that can exist at once
MaxManual == 2
\* number of distinct non-empty continuation tokens the tracker hands out
NumTokens == 2
\* number of issue keys
NumKeys == 2
\* number of issues one search collects at most
MaxCollected == 2
\* cap of the count of requests issued after a repeated token
RepeatCap == 2
\* seconds between two instants of the model clock
ClockStep == 60
\* number of steps the model clock makes
MaxClock == 2
\* number of goroutines that call Resolve
NumCallers == 2
\* number of Resolve calls in one process lifetime
MaxCalls == 3
\* number of rows of the issues table that the analytics queries read
NumIssues == 1
\* largest count passed to calculateChange and calcCompChange
MaxCount == 10
\* number of half minutes the clock of the category loader advances
MaxCatClock == 4
\* number of times the category file is read
MaxFileReads == 3
\* number of words of a summary and of a description
MaxWords == 2

(***************************************************************************)
(* State of the update controller (update.go).                             *)
(***************************************************************************)
VARIABLES
    hasUpdater,   \* c.dataUpdater != nil
    isUpdating,   \* c.isUpdating
    lastUpdate,   \* c.lastUpdate: "nil" or "set"
    manual,       \* goroutines spawned by TriggerUpdate: slot -> [pc, type]
    initPc,       \* the startup import goroutine of RegisterUpdateRoutes
    schedPc,      \* the scheduler goroutine of StartScheduler
    tickPending,  \* the tick buffered in ticker.C while the scheduler is busy
    schedTick,    \* the tick the scheduler is acting on
    respStatus,   \* HTTP status of the last TriggerUpdate response (0: none)
    lastOutcome   \* what the last finished cycle printed: "none", "ok", "failed"

varsCtl == <<hasUpdater, isUpdating, lastUpdate, manual, initPc, schedPc,
             tickPending, schedTick, respStatus, lastOutcome>>

(***************************************************************************)
(* State of one SearchAllIssues call (jira_client.go).                     *)
(***************************************************************************)
VARIABLES
    search,       \* the loop state: pc, pageNum, nextPageToken, allIssues, ...
    reqCount,     \* number of SearchV2JQL requests issued by the call
    sentToken,    \* opts.NextPageToken of the last request
    respToken,    \* resp.NextPageToken of the last response
    delivered,    \* the issues of the pages the tracker returned, in order
    seenTokens,   \* the non-empty tokens the tracker has returned so far
    repeated,     \* a token the tracker had returned before was returned again
    afterRepeat   \* requests issued after that repetition (capped)

varsSearch == <<search, reqCount, sentToken, respToken, delivered, seenTokens,
                repeated, afterRepeat>>

(***************************************************************************)
(* State of the ingestion orchestrator (data_updater.go), of the store it  *)
(* writes and of the tracker it reads.                                     *)
(***************************************************************************)
VARIABLES
    now,           \* the wall clock, in seconds
    upstream,      \* the tickets the tracker holds
    store,         \* the rows of the issues table
    cyc,           \* the ingestion cycle: position and locals
    lastIngested,  \* per key, the row of its most recent successful upsert
    intr           \* the first cycle that stored only part of its issues

varsIngest == <<now, upstream, store, cyc, lastIngested, intr>>

(***************************************************************************)
(* State of the name resolver (name_service.go).                           *)
(***************************************************************************)
VARIABLES
    cache,        \* nr.cache: the entries [id, info]
    calls,          \* per calling goroutine: pc, id, and the returned info, err
    extCalls,     \* per id, the number of GET requests sent to the service
    okCalls,      \* per id, the number of requests that were answered with success
    callsMade     \* number of Resolve calls so far

varsNames == <<cache, calls, extCalls, okCalls, callsMade>>

(***************************************************************************)
(* State of the analytics queries (api package).                           *)
(***************************************************************************)
VARIABLES
    table,        \* the rows of the issues table, with the columns the queries test
    muted,        \* muted_issues: the issue ids
    reply,        \* the request handled last and its response
    chg           \* one call of calculateChange and calcCompChange

varsQuery == <<table, muted, reply, chg>>

(***************************************************************************)
(* State of the category loader (components.go).                           *)
(***************************************************************************)
VARIABLES
    cats,         \* the package variables categoryMap, orderedCategories, lastLoaded
    categoryLock, \* categoryLock: the goroutine that holds the write lock, or 0
    loaders,      \* per calling goroutine: its position in loadCategories and the parsed file
    catFile,      \* what component_categories.yaml holds
    catClock,     \* time.Now(), in half minutes
    fileReads,    \* the number of os.ReadFile calls and the time of the last one
    seen          \* the configuration visible in the read-locked section entered last

varsCats == <<cats, categoryLock, loaders, catFile, catClock, fileReads, seen>>

(***************************************************************************)
(* One call of a function that reads no state but its arguments.           *)
(***************************************************************************)
VARIABLES
    probe         \* the function called, its arguments and what it returned

vars == <<varsCtl, varsSearch, varsIngest, varsNames, varsQuery, varsCats, probe>>

\* what the actions of one component leave alone
nonCtl == <<varsSearch, varsIngest, varsNames, varsQuery, varsCats, probe>>

nonSearch == <<varsCtl, varsIngest, varsNames, varsQuery, varsCats, probe>>

nonIngest == <<varsCtl, varsSearch, varsNames, varsQuery, varsCats, probe>>

nonNames == <<varsCtl, varsSearch, varsIngest, varsQuery, varsCats, probe>>

nonQuery == <<varsCtl, varsSearch, varsIngest, varsNames, varsCats, probe>>

nonCats == <<varsCtl, varsSearch, varsIngest, varsNames, varsQuery, probe>>

Slots == 1..MaxManual

ReqTypes == {"full", "incremental"}

IdleSlot == [pc |-> "idle", type |-> "incremental"]

\* the goroutines that are executing FetchInitialData or IncrementalUpdate
RunningManual == {g \in Slots : manual[g].pc = "running"}

RunningCycles ==
    Cardinality(RunningManual)
    + (IF initPc = "running" THEN 1 ELSE 0)
    + (IF schedPc = "running" THEN 1 ELSE 0)

CycleInFlight == RunningCycles > 0

\* the accepted manual triggers whose cycle has not finished
PendingManual == {g \in Slots : manual[g].pc # "idle"}

\* a StartScheduler that spawns its goroutine without testing the updater
InitCtlSchedulerAlways ==
    /\ hasUpdater \in BOOLEAN
    /\ isUpdating = FALSE
    /\ lastUpdate = "nil"
    /\ manual = [g \in Slots |-> IdleSlot]
    /\ \E dbEmpty \in BOOLEAN :
          initPc = IF dbEmpty /\ hasUpdater THEN "sleeping" ELSE "none"
    /\ schedPc = "waiting"
    /\ tickPending = "none"
    /\ schedTick = "none"
    /\ respStatus = 0
    /\ lastOutcome = "none"

\* NewUpdateController and RegisterUpdateRoutes: the controller is built with
\* or without a data updater, and the startup import goroutine is spawned
\* when the issues table is empty and the updater exists; StartScheduler
\* spawns the scheduler goroutine when the updater exists.
InitCtl ==
    /\ hasUpdater \in BOOLEAN
    /\ isUpdating = FALSE
    /\ lastUpdate = "nil"
    /\ manual = [g \in Slots |-> IdleSlot]
    /\ \E dbEmpty \in BOOLEAN :
          initPc = IF dbEmpty /\ hasUpdater THEN "sleeping" ELSE "none"
    /\ schedPc = IF hasUpdater THEN "waiting" ELSE "off"
    /\ tickPending = "none"
    /\ schedTick = "none"
    /\ respStatus = 0
    /\ lastOutcome = "none"

\* the value c.lastUpdate has after a cycle that returned err
LastUpdateAfter(err) == IF err THEN lastUpdate ELSE "set"

OutcomeOf(err) == IF err THEN "failed" ELSE "ok"

\* TriggerUpdate, the request handler: 503 without updater, 409 when the
\* flag is set, otherwise it spawns the background goroutine and answers 200.
TriggerUpdateReq(t) ==
    /\ IF ~hasUpdater
       THEN /\ respStatus' = 503
            /\ manual' = manual
       ELSE IF isUpdating
       THEN /\ respStatus' = 409
            /\ manual' = manual
       ELSE /\ \E g \in Slots :
                 /\ manual[g].pc = "idle"
                 /\ \A h \in Slots : h < g => manual[h].pc # "idle"
                 /\ manual' = [manual EXCEPT ![g] = [pc |-> "spawned", type |-> t]]
            /\ respStatus' = 200
    /\ UNCHANGED <<hasUpdater, isUpdating, lastUpdate, initPc, schedPc,
                   tickPending, schedTick, lastOutcome>>
    /\ UNCHANGED nonCtl

TriggerUpdate == \E t \in ReqTypes : TriggerUpdateReq(t)

\* the background goroutine of TriggerUpdate starts: c.isUpdating = true,
\* then FetchInitialData(30) or IncrementalUpdate() runs
ManualStart(g) ==
    /\ manual[g].pc = "spawned"
    /\ manual' = [manual EXCEPT ![g].pc = "running"]
    /\ isUpdating' = TRUE
    /\ UNCHANGED <<hasUpdater, lastUpdate, initPc, schedPc, tickPending,
                   schedTick, respStatus, lastOutcome>>
    /\ UNCHANGED nonCtl

\* a cleanup that runs on the success path only
FlagAfterCycleSuccessOnly(err) == err

\* the flag value the exit path of a cycle that returned err writes
FlagAfterCycle(err) == FALSE

\* the cycle of the background goroutine returns (count, err); the deferred
\* function clears the flag; lastUpdate is set on success only
ManualEnd(g) ==
    /\ manual[g].pc = "running"
    /\ \E err \in BOOLEAN :
          /\ isUpdating' = FlagAfterCycle(err)
          /\ lastUpdate' = LastUpdateAfter(err)
          /\ lastOutcome' = OutcomeOf(err)
    /\ manual' = [manual EXCEPT ![g] = IdleSlot]
    /\ UNCHANGED <<hasUpdater, initPc, schedPc, tickPending, schedTick,
                   respStatus>>
    /\ UNCHANGED nonCtl

\* the startup import goroutine wakes from its sleep, sets the flag without
\* reading it and runs FetchInitialData(30)
StartupStart ==
    /\ initPc = "sleeping"
    /\ initPc' = "running"
    /\ isUpdating' = TRUE
    /\ UNCHANGED <<hasUpdater, lastUpdate, manual, schedPc, tickPending,
                   schedTick, respStatus, lastOutcome>>
    /\ UNCHANGED nonCtl

StartupEnd ==
    /\ initPc = "running"
    /\ \E err \in BOOLEAN :
          /\ isUpdating' = FlagAfterCycle(err)
          /\ lastUpdate' = LastUpdateAfter(err)
          /\ lastOutcome' = OutcomeOf(err)
    /\ initPc' = "done"
    /\ UNCHANGED <<hasUpdater, manual, schedPc, tickPending, schedTick,
                   respStatus>>
    /\ UNCHANGED nonCtl

\* whether a tick fired while a cycle was executing
TickKind == IF CycleInFlight THEN "inflight" ELSE "idle"

\* the scheduler loop receives a tick and evaluates `if c.isUpdating`:
\* it skips the tick (continue) or goes on to start a cycle.  The tick is a
\* fresh one, or the one buffered in ticker.C while the scheduler was busy.
SchedulerTick ==
    /\ schedPc = "waiting"
    /\ LET tick == IF tickPending # "none" THEN tickPending ELSE TickKind
       IN  IF isUpdating
           THEN /\ schedPc' = "waiting"
                /\ schedTick' = "none"
           ELSE /\ schedPc' = "starting"
                /\ schedTick' = tick
    /\ tickPending' = "none"
    /\ UNCHANGED <<hasUpdater, isUpdating, lastUpdate, manual, initPc,
                   respStatus, lastOutcome>>
    /\ UNCHANGED nonCtl

\* the scheduler sets c.isUpdating = true and calls IncrementalUpdate()
SchedulerBegin ==
    /\ schedPc = "starting"
    /\ schedPc' = "running"
    /\ isUpdating' = TRUE
    /\ UNCHANGED <<hasUpdater, lastUpdate, manual, initPc, tickPending,
                   schedTick, respStatus, lastOutcome>>
    /\ UNCHANGED nonCtl

\* IncrementalUpdate returns to the scheduler, which resets the flag
SchedulerEnd ==
    /\ schedPc = "running"
    /\ \E err \in BOOLEAN :
          /\ isUpdating' = FlagAfterCycle(err)
          /\ lastUpdate' = LastUpdateAfter(err)
          /\ lastOutcome' = OutcomeOf(err)
    /\ schedPc' = "waiting"
    /\ schedTick' = "none"
    /\ UNCHANGED <<hasUpdater, manual, initPc, tickPending, respStatus>>
    /\ UNCHANGED nonCtl

\* the ticker fires while the scheduler goroutine is not receiving: one tick
\* stays in the channel, further ticks are dropped
TickBuffered ==
    /\ schedPc \in {"starting", "running"}
    /\ tickPending' = IF tickPending = "none" THEN TickKind ELSE tickPending
    /\ UNCHANGED <<hasUpdater, isUpdating, lastUpdate, manual, initPc,
                   schedPc, schedTick, respStatus, lastOutcome>>
    /\ UNCHANGED nonCtl

(***************************************************************************)
(* SearchAllIssues (jira_client.go).  Token 0 is the empty string.         *)
(***************************************************************************)
Keys == 1..NumKeys

EmptyToken == 0

\* the value of respToken while no response has been received
NoResponse == -1

Tokens == 1..NumTokens

maxPages == 500

\* a ceiling test that lets one page too many through
ReachedMaxPagesLate(pageNum) == pageNum > maxPages + 1

\* `if pageNum > maxPages`
ReachedMaxPages(pageNum) == pageNum > maxPages

\* a repetition test that never fires
TokenRepeatedNever(resp, sent) == FALSE

\* `if resp.NextPageToken == nextPageToken`
TokenRepeated(resp, sent) == resp = sent

\* the page put in front of the issues collected so far
PrependPage(all, page) == page \o all

\* `allIssues = append(allIssues, converted)` for every issue of the page
AppendPage(all, page) == all \o page

\* the local variables of SearchAllIssues before the loop
SearchStart ==
    [pc |-> "loop", pageNum |-> 0, nextPageToken |-> EmptyToken,
     allIssues |-> <<>>, err |-> FALSE, result |-> <<>>, stop |-> "none"]

SearchIdle == [SearchStart EXCEPT !.pc = "idle"]

\* whether the next pass of the loop issues a request
SendsRequest(st) == st.pc = "loop" /\ ~ReachedMaxPages(st.pageNum + 1)

\* one pass of the `for` loop: the ceiling test, the request (answered by r),
\* the conversion of the page and the two token tests; on leaving the loop the
\* function returns allIssues, or nil with the error
SearchStep(st, r) ==
    LET n == st.pageNum + 1 IN
    IF ReachedMaxPages(n)
    THEN [st EXCEPT !.pc = "done", !.pageNum = n, !.result = st.allIssues,
                    !.stop = "ceiling"]
    ELSE IF r.err
    THEN [st EXCEPT !.pc = "done", !.pageNum = n, !.err = TRUE,
                    !.result = <<>>, !.stop = "error"]
    ELSE LET all == AppendPage(st.allIssues, r.issues) IN
         IF r.token = EmptyToken
         THEN [st EXCEPT !.pc = "done", !.pageNum = n, !.allIssues = all,
                         !.result = all, !.stop = "empty"]
         ELSE IF TokenRepeated(r.token, st.nextPageToken)
         THEN [st EXCEPT !.pc = "done", !.pageNum = n, !.allIssues = all,
                         !.result = all, !.stop = "repeat"]
         ELSE [st EXCEPT !.pageNum = n, !.allIssues = all,
                         !.nextPageToken = r.token]

\* the pages the tracker can answer with
PageChoices == {<<>>} \cup {<<k>> : k \in Keys}

InitSearch ==
    /\ search = SearchStart
    /\ reqCount = 0
    /\ sentToken = EmptyToken
    /\ respToken = NoResponse
    /\ delivered = <<>>
    /\ seenTokens = {}
    /\ repeated = FALSE
    /\ afterRepeat = 0

\* the count of requests after a repetition, once one more is issued
CountAfterRepeat ==
    IF ~repeated THEN 0
    ELSE IF afterRepeat < RepeatCap THEN afterRepeat + 1 ELSE RepeatCap

\* a pass of the loop whose request the tracker answers with a page
SearchPage ==
    /\ SendsRequest(search)
    /\ \E tok \in Tokens \cup {EmptyToken}, page \in PageChoices :
          /\ Len(search.allIssues) + Len(page) <= MaxCollected
          /\ search' = SearchStep(search, [err |-> FALSE, issues |-> page, token |-> tok])
          /\ respToken' = tok
          /\ delivered' = delivered \o page
          /\ seenTokens' = IF tok = EmptyToken THEN seenTokens
                           ELSE seenTokens \cup {tok}
          /\ repeated' = (repeated \/ tok \in seenTokens)
    /\ reqCount' = reqCount + 1
    /\ sentToken' = search.nextPageToken
    /\ afterRepeat' = CountAfterRepeat
    /\ UNCHANGED nonSearch

\* a pass of the loop whose request fails (transport or auth error)
SearchFail ==
    /\ SendsRequest(search)
    /\ search' = SearchStep(search, [err |-> TRUE, issues |-> <<>>, token |-> EmptyToken])
    /\ reqCount' = reqCount + 1
    /\ sentToken' = search.nextPageToken
    /\ afterRepeat' = CountAfterRepeat
    /\ respToken' = NoResponse
    /\ UNCHANGED <<delivered, seenTokens, repeated>>
    /\ UNCHANGED nonSearch

\* the pass of the loop that finds the page ceiling reached and breaks
SearchCeiling ==
    /\ search.pc = "loop"
    /\ ~SendsRequest(search)
    /\ search' = SearchStep(search, [err |-> FALSE, issues |-> <<>>, token |-> EmptyToken])
    /\ UNCHANGED <<reqCount, sentToken, respToken, delivered, seenTokens,
                   repeated, afterRepeat>>
    /\ UNCHANGED nonSearch

NextSearch == SearchPage \/ SearchFail \/ SearchCeiling

(***************************************************************************)
(* The ingestion orchestrator (data_updater.go).                           *)
(***************************************************************************)
DaySecs == 86400

SecPerMin == 60

\* the clock at the start of the model: a day more than the 30-day window
T0 == 31 * DaySecs

\* the zone offset of the stamps the tracker sends (+0800)
TrackerOffset == 28800

Projects == <<"O11YDEV", "O11YSTAG", "O11Y">>

\* the project an issue key belongs to: two keys in each project
ProjectOf(k) == Projects[(((k - 1) \div 2) % Len(Projects)) + 1]

\* titles as word lists
Titles == {<<"disk", "full">>, <<"CPU", "Alert">>}

Lower(w) ==
    CASE w = "CPU" -> "cpu"
      [] w = "Alert" -> "alert"
      [] w = "Firing" -> "firing"
      [] w = "PROMETHEUS" -> "prometheus"
      [] OTHER -> w

\* strings.Contains(strings.ToLower(text), kw)
ContainsLower(text, kw) == \E j \in 1..Len(text) : Lower(text[j]) = kw

\* Format("2006-01-02T15:04:05.000-0700") of the tracker's creation time
FormatJira(t) == [fmt |-> "jira", local |-> t + TrackerOffset, off |-> TrackerOffset]

\* layouts of a creation stamp that neither time.Parse of convertToUTC
\* accepts: "Mon, 15 Jan 2024 10:30:45 +0800" and "15/Jan/24 10:30 AM"
OddLayouts == {"rfc1123", "dmy"}

\* the creation stamp of a ticket as the tracker sends it
TrackerStamp(u) ==
    [fmt |-> u.layout, local |-> u.created + TrackerOffset, off |-> TrackerOffset]

\* the JiraIssue that SearchAllIssues builds from a tracker ticket
ConvertIssue(u) ==
    [Key |-> u.key, Summary |-> u.title, Description |-> <<>>,
     Created |-> TrackerStamp(u), Project |-> ProjectOf(u.key)]

\* convertToUTC: both accepted layouts are rewritten to the UTC stamp, any
\* other string is passed through
convertToUTC(stamp) ==
    IF stamp.fmt \in {"jira", "rfc3339"}
    THEN [fmt |-> "utc", t |-> stamp.local - stamp.off]
    ELSE stamp

isAlert(description, title) ==
    \/ ContainsLower(description, "alert")
    \/ ContainsLower(title, "alert")
    \/ ContainsLower(description, "firing")
    \/ ContainsLower(description, "prometheus")

extractIssueData(issue) ==
    LET alert == isAlert(issue.Description, issue.Summary) IN
    [id |-> issue.Key,
     title |-> issue.Summary,
     description |-> issue.Description,
     created |-> convertToUTC(issue.Created),
     project |-> issue.Project,
     is_alert |-> alert,
     alert_signature |-> IF alert THEN issue.Summary ELSE <<>>]

\* an insert that keeps the row already stored under the key
InsertOrIgnore(tbl, row) ==
    IF \E r \in tbl : r.id = row.id THEN tbl ELSE tbl \cup {row}

\* INSERT OR REPLACE INTO issues: id is the primary key
InsertOrReplace(tbl, row) == {r \in tbl : r.id # row.id} \cup {row}

\* SELECT MAX(created) FROM issues: NULL on an empty table
HasLatest(tbl) == tbl # {}

\* the order of the created column, which holds text: a stamp that starts
\* with a day of the month sorts below the UTC stamps, which start with the
\* year, and a stamp that starts with the name of a weekday sorts above them
StampLeq(a, b) ==
    LET rank(c) == IF c.fmt = "utc" THEN 1 ELSE IF c.fmt = "rfc1123" THEN 2 ELSE 0
        time(c) == IF c.fmt = "utc" THEN c.t ELSE c.local
    IN  \/ rank(a) < rank(b)
        \/ rank(a) = rank(b) /\ time(a) <= time(b)

LatestDate(tbl) ==
    CHOOSE c \in {r.created : r \in tbl} :
        \A r \in tbl : StampLeq(r.created, c)

\* time.Parse("2006-01-02 15:04:05", TrimSuffix(s, " UTC"))
ParsesAsStored(c) == c.fmt = "utc"

\* Format("2006-01-02 15:04") in the JQL: the seconds are cut off
FormatMinute(t) == t - (t % SecPerMin)

\* the two dates that fetchAllO11YAlerts writes into the JQL
JqlWindow(startDate, endDate) ==
    [from |-> FormatMinute(startDate), to |-> FormatMinute(endDate)]

\* the tickets of a project that the JQL of fetchAllO11YAlerts selects
Matching(proj, startDate, endDate) ==
    LET w == JqlWindow(startDate, endDate) IN
    {u \in upstream :
        /\ ProjectOf(u.key) = proj
        /\ u.created >= w.from
        /\ u.created < w.to}

\* the orders in which the tracker can list a set of tickets
Orders(S) ==
    {q \in [1..Cardinality(S) -> S] : \A a, b \in 1..Cardinality(S) : a # b => q[a] # q[b]}

ConvertAll(q) == [j \in 1..Len(q) |-> ConvertIssue(q[j])]

\* the answers of the tracker to the requests of one search: the tickets in
\* one page or in two, and possibly an error at some request
Answers(S) ==
    UNION {
      LET all == ConvertAll(q)
          one == <<[err |-> FALSE, issues |-> all, token |-> EmptyToken]>>
          two == <<[err |-> FALSE, issues |-> SubSeq(all, 1, 1), token |-> 1],
                   [err |-> FALSE, issues |-> SubSeq(all, 2, Len(all)), token |-> EmptyToken]>>
          bad == [err |-> TRUE, issues |-> <<>>, token |-> EmptyToken]
      IN  {one, <<bad>>} \cup
          (IF Len(all) >= 2 THEN {two, <<two[1], bad>>} ELSE {})
      : q \in Orders(S)}

RECURSIVE SearchLoop(_, _)
\* the loop of SearchAllIssues run against the answers resps
SearchLoop(st, resps) ==
    IF st.pc = "done" THEN st
    ELSE SearchLoop(SearchStep(st, resps[st.pageNum + 1]), resps)

SearchAllIssues(resps) == SearchLoop(SearchStart, resps)

CycleIdle ==
    [pc |-> "idle", kind |-> "none", startDate |-> 0, endDate |-> 0,
     projIdx |-> 0, allIssues |-> <<>>, i |-> 0, successCount |-> 0,
     err |-> "none", retCount |-> 0, fetched |-> 0, dropped |-> <<>>,
     overwrote |-> FALSE, afterIntr |-> FALSE,
     attempted |-> <<>>, attempts |-> 0, stored |-> 0]

\* a cycle that returns (0, err) before or during the fetch
Failed(c, e) ==
    [c EXCEPT !.pc = "done", !.err = e, !.retCount = 0, !.allIssues = <<>>,
              !.projIdx = 0, !.startDate = 0, !.endDate = 0]

\* a window start that repeats the latest stored stamp
IncrementalStartAtLatest ==
    IF HasLatest(store) THEN LatestDate(store).t ELSE now - 30 * DaySecs

\* the window start of IncrementalUpdate
IncrementalStart ==
    IF HasLatest(store) THEN LatestDate(store).t + 1 ELSE now - 30 * DaySecs

\* an IncrementalUpdate that falls back to the last 30 days when the latest
\* stamp does not parse
BeginWithoutParseError(kind) ==
    /\ cyc.pc \in {"idle", "done"}
    /\ \E connOk \in BOOLEAN :
          LET c0 == [CycleIdle EXCEPT !.kind = kind, !.afterIntr = intr.set] IN
          cyc' = IF ~connOk THEN Failed(c0, "conn")
                 ELSE IF kind = "full"
                 THEN [c0 EXCEPT !.pc = "fetch", !.projIdx = 1,
                                 !.startDate = now - 30 * DaySecs, !.endDate = now]
                 ELSE IF HasLatest(store) /\ ~ParsesAsStored(LatestDate(store))
                 THEN [c0 EXCEPT !.pc = "fetch", !.projIdx = 1,
                                 !.startDate = now - 30 * DaySecs, !.endDate = now]
                 ELSE [c0 EXCEPT !.pc = "fetch", !.projIdx = 1,
                                 !.startDate = IncrementalStart, !.endDate = now]
    /\ UNCHANGED <<now, upstream, store, lastIngested, intr>>
    /\ UNCHANGED nonIngest

\* FetchInitialData(30) or IncrementalUpdate up to the call of
\* fetchAllO11YAlerts: connection test and window
Begin(kind) ==
    /\ cyc.pc \in {"idle", "done"}
    /\ \E connOk \in BOOLEAN :
          LET c0 == [CycleIdle EXCEPT !.kind = kind, !.afterIntr = intr.set] IN
          cyc' = IF ~connOk THEN Failed(c0, "conn")
                 ELSE IF kind = "full"
                 THEN [c0 EXCEPT !.pc = "fetch", !.projIdx = 1,
                                 !.startDate = now - 30 * DaySecs, !.endDate = now]
                 ELSE IF HasLatest(store) /\ ~ParsesAsStored(LatestDate(store))
                 THEN Failed(c0, "parse")
                 ELSE [c0 EXCEPT !.pc = "fetch", !.projIdx = 1,
                                 !.startDate = IncrementalStart, !.endDate = now]
    /\ UNCHANGED <<now, upstream, store, lastIngested, intr>>
    /\ UNCHANGED nonIngest

FetchInitialData == Begin("full")

IncrementalUpdate == Begin("incr")

\* a cycle that returns the number of issues it has fetched
ReturnedFetchedCount(c) ==
    IF c.pc = "process" /\ c.i > Len(c.allIssues)
    THEN [c EXCEPT !.pc = "done", !.retCount = Len(c.allIssues),
                   !.fetched = Len(c.allIssues), !.allIssues = <<>>,
                   !.i = 0, !.projIdx = 0, !.successCount = 0,
                   !.startDate = 0]
    ELSE c

\* the cycle after its loop over allIssues has ended: it logs successCount
\* and len(allIssues) and returns successCount
Returned(c) ==
    IF c.pc = "process" /\ c.i > Len(c.allIssues)
    THEN [c EXCEPT !.pc = "done", !.retCount = c.successCount,
                   !.fetched = Len(c.allIssues), !.allIssues = <<>>,
                   !.i = 0, !.projIdx = 0, !.successCount = 0,
                   !.startDate = 0]
    ELSE c

\* the cycle after the search of one project has returned issues: they are
\* appended, and after the last project the loop over allIssues starts
Collected(c, issues) ==
    IF c.projIdx < Len(Projects)
    THEN [c EXCEPT !.allIssues = c.allIssues \o issues, !.projIdx = c.projIdx + 1]
    ELSE Returned([c EXCEPT !.allIssues = c.allIssues \o issues,
                            !.projIdx = c.projIdx + 1,
                            !.pc = "process", !.i = 1])

\* a fetch error that is logged while the issues collected so far are kept
\* and the remaining scopes are still searched
OnFetchErrorKeepPartial(c) == [Collected(c, <<>>) EXCEPT !.err = "fetch"]

\* fetchAllO11YAlerts returns nil and the error, the cycle returns (0, err)
OnFetchError(c) == [Failed(c, "fetch") EXCEPT !.dropped = c.allIssues]

\* one pass of the loop of fetchAllO11YAlerts: the search of one project;
\* after the last project the cycle goes on to process the issues
FetchScope ==
    /\ cyc.pc = "fetch"
    /\ \E resps \in Answers(Matching(Projects[cyc.projIdx], cyc.startDate, cyc.endDate)) :
          LET res == SearchAllIssues(resps) IN
          cyc' = IF res.err THEN OnFetchError(cyc)
                 ELSE Collected(cyc, res.result)
    /\ UNCHANGED <<now, upstream, store, lastIngested, intr>>
    /\ UNCHANGED nonIngest

\* one pass of the loop over allIssues: processIssue extracts the row and
\* upserts it; a failed Exec is logged and the loop goes on.  The cycle keeps
\* a record of the keys it has passed to processIssue, of their number and
\* of the number of upserts that wrote the store.  With track, the first
\* cycle that ends with only part of its issues stored is recorded.
ProcessIssueStep(track) ==
    /\ cyc.pc = "process"
    /\ cyc.i <= Len(cyc.allIssues)
    /\ \E ok \in BOOLEAN :
          LET row == extractIssueData(cyc.allIssues[cyc.i])
              over == ok /\ \E r \in store : r.id = row.id /\ r # row
              c0 == Returned([cyc EXCEPT
                       !.i = cyc.i + 1,
                       !.successCount = IF ok THEN cyc.successCount + 1 ELSE cyc.successCount,
                       !.overwrote = cyc.overwrote \/ over])
              c1 == [c0 EXCEPT
                       !.attempted = IF c0.pc = "done" THEN <<>>
                                     ELSE Append(cyc.attempted, row.id),
                       !.attempts = cyc.attempts + 1,
                       !.stored = IF ok THEN cyc.stored + 1 ELSE cyc.stored]
              partial == /\ c1.pc = "done"
                         /\ c1.retCount > 0
                         /\ c1.retCount < c1.fetched
          IN  /\ cyc' = c1
              /\ store' = IF ok THEN InsertOrReplace(store, row) ELSE store
              /\ lastIngested' = IF ok THEN [lastIngested EXCEPT ![row.id] = <<row>>]
                                 ELSE lastIngested
              /\ intr' = IF track /\ partial /\ ~intr.set
                         THEN [set |-> TRUE, start |-> cyc.startDate]
                         ELSE intr
    /\ UNCHANGED <<now, upstream>>
    /\ UNCHANGED nonIngest

ProcessIssue == ProcessIssueStep(FALSE)

ProcessIssueTracked == ProcessIssueStep(TRUE)

\* a ticket is created in the tracker, which numbers its keys in sequence
\* and sends the creation stamp in one of the layouts
CreateStamped(layouts) ==
    /\ \E k \in Keys, t \in Titles, l \in layouts :
          /\ k = Cardinality(upstream) + 1
          /\ upstream' = upstream \cup
                 {[key |-> k, created |-> now, title |-> t, layout |-> l]}
    /\ UNCHANGED <<now, store, cyc, lastIngested, intr>>
    /\ UNCHANGED nonIngest

CreateIssue == CreateStamped({"jira"})

\* a ticket whose creation stamp is in a layout that convertToUTC passes through
CreateOddIssue == CreateStamped(OddLayouts)

\* the summary of a ticket is edited in the tracker
EditIssue ==
    /\ \E u \in upstream, t \in Titles :
          /\ t # u.title
          /\ upstream' = (upstream \ {u}) \cup {[u EXCEPT !.title = t]}
    /\ UNCHANGED <<now, store, cyc, lastIngested, intr>>
    /\ UNCHANGED nonIngest

\* time passes
AdvanceClock ==
    /\ now < T0 + MaxClock * ClockStep
    /\ now' = now + ClockStep
    /\ UNCHANGED <<upstream, store, cyc, lastIngested, intr>>
    /\ UNCHANGED nonIngest

InitIngest ==
    /\ now = T0
    /\ upstream = {}
    /\ store = {}
    /\ cyc = CycleIdle
    /\ lastIngested = [k \in Keys |-> <<>>]
    /\ intr = [set |-> FALSE, start |-> 0]

NextIngest ==
    \/ FetchInitialData
    \/ IncrementalUpdate
    \/ FetchScope
    \/ ProcessIssue
    \/ CreateIssue
    \/ EditIssue
    \/ AdvanceClock

NextRerun ==
    \/ FetchInitialData
    \/ IncrementalUpdate
    \/ FetchScope
    \/ ProcessIssueTracked
    \/ CreateIssue
    \/ EditIssue
    \/ AdvanceClock

NextStamp ==
    \/ FetchInitialData
    \/ IncrementalUpdate
    \/ FetchScope
    \/ ProcessIssue
    \/ CreateIssue
    \/ CreateOddIssue
    \/ AdvanceClock

NextCtl ==
    \/ TriggerUpdate
    \/ \E g \in Slots : ManualStart(g)
    \/ \E g \in Slots : ManualEnd(g)
    \/ StartupStart
    \/ StartupEnd
    \/ SchedulerTick
    \/ SchedulerBegin
    \/ SchedulerEnd
    \/ TickBuffered

(***************************************************************************)
(* The name resolver (name_service.go).                                    *)
(***************************************************************************)
Callers == 1..NumCallers

\* ids as strings of code points: "", "0", "9", "42", "9a", "/", ":0"
Ids == {<<>>, <<48>>, <<57>>, <<52, 50>>, <<57, 97>>, <<47>>, <<58, 48>>}

\* names the lookup service answers with
ServiceNames == {<<100, 98>>, <<107, 118>>}

\* a digit test that lets the code point after '9' pass
isNumericLoose(s) ==
    /\ \A j \in 1..Len(s) : ~(s[j] < 48 \/ s[j] > 58)
    /\ Len(s) > 0

isNumeric(s) ==
    /\ \A j \in 1..Len(s) : ~(s[j] < 48 \/ s[j] > 57)
    /\ Len(s) > 0

\* NameInfo{}
EmptyInfo == [Type |-> "", ID |-> <<>>, Name |-> <<>>, TenantID |-> "", TenantName |-> ""]

\* NameInfo{ID: id, Name: id}
Fallback(id) == [EmptyInfo EXCEPT !.ID = id, !.Name = id]

\* apiResp.Data of a successful answer
ServiceData(id, n) ==
    [Type |-> "cluster", ID |-> id, Name |-> n, TenantID |-> "t", TenantName |-> "tn"]

\* the ways a lookup fails: transport error or timeout, non-200 status,
\* unreadable body, malformed body, success flag false
LookupErrors == {"transport", "status", "read", "json", "unsuccessful"}

InCache(c, id) == \E e \in c : e.id = id

CacheGet(c, id) == (CHOOSE e \in c : e.id = id).info

\* nr.cache[id] = info
CachePut(c, id, info) == {e \in c : e.id # id} \cup {[id |-> id, info |-> info]}

\* a failed lookup that stores its fallback in the cache
CacheAfterFailureFallback(c, id) == CachePut(c, id, Fallback(id))

\* the cache after a failed lookup: every error path returns before the write
CacheAfterFailure(c, id) == c

ResIdle == [pc |-> "idle", id |-> <<>>, info |-> EmptyInfo, err |-> "none"]

ResDone(id, info, err) == [pc |-> "done", id |-> id, info |-> info, err |-> err]

\* Resolve up to the end of the cache check
ResolveBegin(p) ==
    /\ calls[p].pc \in {"idle", "done"}
    /\ callsMade < MaxCalls
    /\ callsMade' = callsMade + 1
    /\ \E id \in Ids :
          calls' = [calls EXCEPT ![p] =
                    IF id = <<>> THEN ResDone(id, EmptyInfo, "empty id")
                    ELSE IF ~isNumeric(id) THEN ResDone(id, Fallback(id), "none")
                    ELSE IF InCache(cache, id) THEN ResDone(id, CacheGet(cache, id), "none")
                    ELSE [pc |-> "get", id |-> id, info |-> EmptyInfo, err |-> "none"]]
    /\ UNCHANGED <<cache, extCalls, okCalls>>
    /\ UNCHANGED nonNames

\* the GET request and the decoding of its answer
ResolveGet(p) ==
    /\ calls[p].pc = "get"
    /\ LET id == calls[p].id IN
          /\ extCalls' = [extCalls EXCEPT ![id] = @ + 1]
          /\ \/ \E e \in LookupErrors :
                   /\ calls' = [calls EXCEPT ![p] = ResDone(id, Fallback(id), e)]
                   /\ cache' = CacheAfterFailure(cache, id)
                   /\ okCalls' = okCalls
             \/ \E n \in ServiceNames :
                   /\ calls' = [calls EXCEPT ![p] =
                                [pc |-> "store", id |-> id,
                                 info |-> ServiceData(id, n), err |-> "none"]]
                   /\ cache' = cache
                   /\ okCalls' = [okCalls EXCEPT ![id] = @ + 1]
    /\ UNCHANGED callsMade
    /\ UNCHANGED nonNames

\* the cache write under the lock, and the return
ResolveStore(p) ==
    /\ calls[p].pc = "store"
    /\ cache' = CachePut(cache, calls[p].id, calls[p].info)
    /\ calls' = [calls EXCEPT ![p] = ResDone(calls[p].id, calls[p].info, "none")]
    /\ UNCHANGED <<extCalls, okCalls, callsMade>>
    /\ UNCHANGED nonNames

InitNames ==
    /\ cache = {}
    /\ calls = [p \in Callers |-> ResIdle]
    /\ extCalls = [id \in Ids |-> 0]
    /\ okCalls = [id \in Ids |-> 0]
    /\ callsMade = 0

NextNames ==
    \/ \E p \in Callers : ResolveBegin(p)
    \/ \E p \in Callers : ResolveGet(p)
    \/ \E p \in Callers : ResolveStore(p)

(***************************************************************************)
(* The change of a count between two periods (calculateChange in the       *)
(* dashboard handlers, calcCompChange in components.go).  The float64      *)
(* result is kept as the exact quotient num / den with den > 0.            *)
(***************************************************************************)
Counts == 0..MaxCount

\* float64(a) / float64(b) for b > 0
Over(a, b) == [num |-> a, den |-> b]

\* x * 100
TimesHundred(x) == [num |-> x.num * 100, den |-> x.den]

Whole(n) == [num |-> n, den |-> 1]

\* a change that is 0 and neutral whenever the previous count is 0
calculateChangeZeroBase(current, previous) ==
    IF previous = 0
    THEN [change |-> Whole(0), trend |-> "neutral"]
    ELSE LET change == TimesHundred(Over(current - previous, previous)) IN
         [change |-> change,
          trend |-> IF change.num > 0 THEN "up"
                    ELSE IF change.num < 0 THEN "down" ELSE "neutral"]

calculateChange(current, previous) ==
    IF previous = 0
    THEN IF current = 0
         THEN [change |-> Whole(0), trend |-> "neutral"]
         ELSE [change |-> Whole(100), trend |-> "up"]
    ELSE LET change == TimesHundred(Over(current - previous, previous)) IN
         [change |-> change,
          trend |-> IF change.num > 0 THEN "up"
                    ELSE IF change.num < 0 THEN "down" ELSE "neutral"]

calcCompChange(curr, prev) ==
    IF prev = 0
    THEN IF curr = 0
         THEN [change |-> Whole(0), trend |-> "neutral"]
         ELSE [change |-> Whole(100), trend |-> "up"]
    ELSE LET change == TimesHundred(Over(curr - prev, prev)) IN
         [change |-> change,
          trend |-> IF change.num > 0 THEN "up"
                    ELSE IF change.num < 0 THEN "down" ELSE "neutral"]

NoChange == [change |-> Whole(0), trend |-> "none"]

ChgUnused ==
    [pc |-> "none", current |-> 0, previous |-> 0, dash |-> NoChange, comp |-> NoChange]

\* the two functions are called with a pair of counts
InitChange ==
    \E current \in Counts, previous \in Counts :
        chg = [ChgUnused EXCEPT !.pc = "args", !.current = current, !.previous = previous]

CalcChange ==
    /\ chg.pc = "args"
    /\ chg' = [chg EXCEPT !.pc = "done",
                          !.dash = calculateChange(chg.current, chg.previous),
                          !.comp = calcCompChange(chg.current, chg.previous)]
    /\ UNCHANGED <<table, muted, reply>>
    /\ UNCHANGED nonQuery

NextChange == CalcChange

(***************************************************************************)
(* The analytics queries: GetDashboardData, GetDashboardIssues, MuteIssue  *)
(* (dashboard handlers) and GetComponentStats (components.go).  A row of   *)
(* the issues table carries the columns that the modelled conditions test: *)
(* the marker of its title and alert signature ("[PROD] ...",              *)
(* "[STAGING] ...", or none), biz_type, stability_governance, components   *)
(* and created.  The conditions on tenant_id, cluster_id, signature,       *)
(* metric_type and priority, and the paging of the list, are left out:     *)
(* the requests of the model do not carry these parameters.                *)
(***************************************************************************)
IssueIds == 1..NumIssues

Markers == {"PROD", "STAGING", "NONE"}

BizTypes == {"nextgen", "devtier", "dedicated"}

Governances == {"", "governed"}

\* the JSON lists of the components column
ComponentLists == {<<>>, <<"TiKV">>, <<"Chaos">>}

RowKinds ==
    [marker : Markers, biz_type : BizTypes,
     stability_governance : Governances, components : ComponentLists]

Row(id, kind, created) ==
    [id |-> id, is_alert |-> TRUE, created |-> created, marker |-> kind.marker,
     biz_type |-> kind.biz_type,
     stability_governance |-> kind.stability_governance,
     components |-> kind.components]

\* the component to category map loaded from component_categories.yaml
categoryMap == [c \in {"TiKV", "Chaos"} |-> IF c = "TiKV" THEN "Storage" ELSE "Resilience"]

getCategory(name) ==
    IF name = "Serverless" THEN "Serverless"
    ELSE IF name \in DOMAIN categoryMap THEN categoryMap[name]
    ELSE "Other"

\* the values of the query parameters; 0 days stands for an absent parameter
QueryDays == {0, 7}

Envs == {"all", "prod", "non_prod"}

Tiers == {"", "premium", "essential", "dedicated"}

Scopes == {"TiKV", "Chaos", "Serverless", "old-rules"}

Requests == [days : QueryDays, env : Envs, category : Tiers, component : Scopes \cup {""}]

\* fmt.Sscanf and the default of 30 days
DaysOf(q) == IF q.days <= 0 THEN 30 ELSE q.days

\* SUBSTR(REPLACE(created, ' UTC', ''), 1, 10)
DateOf(t) == t \div DaySecs

\* the stamp of 00:00:00 of the day of t
DayStart(t) == t - (t % DaySecs)

\* x BETWEEN a AND b
Between(x, a, b) == a <= x /\ x <= b

\* a previous period that ends where it starts
DashboardWindowNoPrevious(q) ==
    [start |-> now - DaysOf(q) * DaySecs, end |-> now,
     prevStart |-> now - DaysOf(q) * DaySecs,
     prevEnd |-> now - DaysOf(q) * DaySecs]

\* startDate, endDate, prevStartDate, prevEndDate of GetDashboardData
DashboardWindow(q) ==
    [start |-> now - DaysOf(q) * DaySecs, end |-> now,
     prevStart |-> now - (DaysOf(q) * 2) * DaySecs,
     prevEnd |-> now - DaysOf(q) * DaySecs]

\* the same of GetComponentStats: both periods start at the beginning of a day
StatsWindow(q) ==
    [start |-> DayStart(now - DaysOf(q) * DaySecs), end |-> now,
     prevStart |-> DayStart((now - DaysOf(q) * DaySecs) - DaysOf(q) * DaySecs),
     prevEnd |-> DayStart(now - DaysOf(q) * DaySecs)]

\* envCondition of the dashboard handlers: alert_signature LIKE '[PROD]%'
SignatureEnv(env, r) ==
    IF env = "prod" THEN r.marker = "PROD"
    ELSE IF env = "non_prod" THEN r.marker # "PROD"
    ELSE TRUE

\* envCondition of GetComponentStats: title LIKE '%PROD%', '%STAGING%', '%[STG]%'
TitleEnv(env, r) ==
    IF env = "prod" THEN r.marker = "PROD"
    ELSE IF env = "non_prod" THEN r.marker \in {"STAGING", "STG"}
    ELSE TRUE

\* the markers that occur in a biz_type string
MarkersIn(biz) ==
    CASE biz = "nextgen" -> {"nextgen"}
      [] biz = "devtier" -> {"devtier"}
      [] biz = "TiDB Serverless" -> {"TiDB Serverless"}
      [] biz = "nextgen-devtier" -> {"nextgen", "devtier"}
      [] OTHER -> {}

\* biz_type LIKE '%marker%'
BizLike(biz, marker) == marker \in MarkersIn(biz)

\* the category switch of GetDashboardIssues
ListCategory(category, r) ==
    IF category = "premium" THEN BizLike(r.biz_type, "nextgen")
    ELSE IF category = "essential" THEN BizLike(r.biz_type, "devtier")
    ELSE IF category = "dedicated"
    THEN ~BizLike(r.biz_type, "nextgen") /\ ~BizLike(r.biz_type, "devtier")
    ELSE TRUE

\* categoryCondition of GetComponentStats
StatsCategory(category, r) ==
    IF category = "premium" THEN BizLike(r.biz_type, "nextgen")
    ELSE IF category = "essential"
    THEN BizLike(r.biz_type, "devtier") \/ BizLike(r.biz_type, "TiDB Serverless")
    ELSE IF category = "dedicated"
    THEN /\ ~BizLike(r.biz_type, "nextgen")
         /\ ~BizLike(r.biz_type, "devtier")
         /\ ~BizLike(r.biz_type, "TiDB Serverless")
    ELSE TRUE

\* (stability_governance = '' OR stability_governance IS NULL)
\*   AND (biz_type NOT LIKE '%nextgen%')
OldRules(r) == r.stability_governance = "" /\ ~BizLike(r.biz_type, "nextgen")

\* components LIKE '%name%' and components LIKE '%"name"%'
ComponentsLike(r, name) == \E j \in 1..Len(r.components) : r.components[j] = name

\* a stability condition that excludes nothing from a component
StabilityConditionNone(name, r) ==
    IF name = "old-rules" THEN OldRules(r) ELSE TRUE

\* stabilityCondition: the rows of old-rules are excluded from a component
\* unless its category is Resilience or Serverless
StabilityCondition(name, r) ==
    IF name = "old-rules" THEN OldRules(r)
    ELSE IF getCategory(name) \notin {"Resilience", "Serverless"} THEN ~OldRules(r)
    ELSE TRUE

IdsOf(rows) == {r.id : r \in rows}

\* the rows of the daily trend: one per date that has rows
TrendOf(rows, w) ==
    LET inDays == {r \in rows : Between(DateOf(r.created), DateOf(w.start), DateOf(w.end))} IN
    {[date |-> d, ids |-> {r.id : r \in {x \in inDays : DateOf(x.created) = d}}]
       : d \in {DateOf(r.created) : r \in inDays}}

NoResp ==
    [endpoint |-> "none", status |-> 0, q |-> <<>>, excluded |-> {},
     current |-> {}, previous |-> {}, trend |-> {}, list |-> {}]

\* GetDashboardData: totals of both periods and the trend; the category
\* parameter and the muted_issues table are not read
DashboardData(q) ==
    LET w == DashboardWindow(q)
        rows == {r \in table :
                   /\ r.is_alert
                   /\ SignatureEnv(q.env, r)
                   /\ (q.component # "" => ComponentsLike(r, q.component))}
    IN  [NoResp EXCEPT
           !.endpoint = "dashboard", !.status = 200, !.q = q,
           !.current = IdsOf({r \in rows : Between(r.created, w.start, w.end)}),
           !.previous = IdsOf({r \in rows : Between(r.created, w.prevStart, w.prevEnd)}),
           !.trend = TrendOf(rows, w)]

\* GetDashboardIssues: the list, without the rows that are muted
DashboardIssues(q) ==
    LET w == DashboardWindow(q)
        category == IF q.component = "Serverless" THEN "essential" ELSE q.category
        scope(r) ==
            IF q.component \in {"", "Serverless"} THEN TRUE
            ELSE IF q.component = "old-rules" THEN OldRules(r)
            ELSE /\ StabilityCondition(q.component, r)
                 /\ ComponentsLike(r, q.component)
        rows == {r \in table :
                   /\ r.id \notin muted
                   /\ r.is_alert
                   /\ SignatureEnv(q.env, r)
                   /\ scope(r)
                   /\ ListCategory(category, r)
                   /\ Between(r.created, w.start, w.end)}
    IN  [NoResp EXCEPT
           !.endpoint = "issues", !.status = 200, !.q = q, !.list = IdsOf(rows)]

\* GetComponentStats of the component q.component; excluded are the rows that
\* the condition of buildClusterFilterCondition rejects
ComponentStats(q, excluded) ==
    LET w == StatsWindow(q)
        name == q.component
        category(r) ==
            IF name = "Serverless"
            THEN BizLike(r.biz_type, "devtier") \/ BizLike(r.biz_type, "TiDB Serverless")
            ELSE StatsCategory(q.category, r)
        rows == {r \in table :
                   /\ r.is_alert
                   /\ (name \in {"Serverless", "old-rules"} \/ ComponentsLike(r, name))
                   /\ TitleEnv(q.env, r)
                   /\ category(r)
                   /\ StabilityCondition(name, r)
                   /\ r.id \notin excluded}
    IN  [NoResp EXCEPT
           !.endpoint = "stats", !.status = 200, !.q = q, !.excluded = excluded,
           !.current = IdsOf({r \in rows : Between(r.created, w.start, w.end)}),
           !.previous = IdsOf({r \in rows : Between(r.created, w.prevStart, w.prevEnd)}),
           !.trend = TrendOf(rows, w),
           !.list = IdsOf(rows)]

GetDashboardData ==
    /\ reply = NoResp
    /\ \E q \in Requests : reply' = DashboardData(q)
    /\ UNCHANGED <<table, muted, chg>>
    /\ UNCHANGED nonQuery

GetDashboardIssues ==
    /\ reply = NoResp
    /\ \E q \in Requests : reply' = DashboardIssues(q)
    /\ UNCHANGED <<table, muted, chg>>
    /\ UNCHANGED nonQuery

GetComponentStats ==
    /\ reply = NoResp
    /\ \E q \in Requests, excluded \in SUBSET IdsOf(table) :
          /\ q.component # ""
          /\ reply' = ComponentStats(q, excluded)
    /\ UNCHANGED <<table, muted, chg>>
    /\ UNCHANGED nonQuery

\* MuteIssue: the insert fails on an issue id that is muted already
MuteIssue ==
    /\ reply = NoResp
    /\ \E id \in IdsOf(table) :
          IF id \in muted
          THEN /\ muted' = muted
               /\ reply' = [NoResp EXCEPT !.endpoint = "mute", !.status = 500, !.list = {id}]
          ELSE /\ muted' = muted \cup {id}
               /\ reply' = [NoResp EXCEPT !.endpoint = "mute", !.status = 200, !.list = {id}]
    /\ UNCHANGED <<table, chg>>
    /\ UNCHANGED nonQuery

\* c.JSON: the response is sent and the handler returns
ReplySent ==
    /\ reply # NoResp
    /\ reply' = NoResp
    /\ UNCHANGED <<table, muted, chg>>
    /\ UNCHANGED nonQuery

\* the instants at which the queries run: 00:00, 08:00 and 16:00 of one day
QueryInstants == {60 * DaySecs + h * 28800 : h \in 0..2}

\* the table of the window scenario: alert tickets created 3, 10 and 40 days
\* before now
ScenarioAges == <<3, 10, 40>>

QueryUnused ==
    /\ table = {}
    /\ muted = {}
    /\ reply = NoResp
    /\ chg = ChgUnused

IngestUnused ==
    /\ upstream = {}
    /\ store = {}
    /\ cyc = CycleIdle
    /\ lastIngested = [k \in Keys |-> <<>>]
    /\ intr = [set |-> FALSE, start |-> 0]

\* a table of NumIssues alert rows created 3 days before now
InitAnalytics ==
    /\ now = 60 * DaySecs
    /\ \E kinds \in [IssueIds -> RowKinds] :
          table = {Row(id, kinds[id], now - 3 * DaySecs) : id \in IssueIds}
    /\ muted = {}
    /\ reply = NoResp
    /\ chg = ChgUnused

\* the table of the window scenario: three governed rows of the dedicated
\* tier, alike in the other columns
InitWindow ==
    /\ now \in QueryInstants
    /\ \E kind \in RowKinds :
          /\ kind.biz_type = "dedicated"
          /\ kind.stability_governance = "governed"
          /\ table = {Row(j, kind, now - ScenarioAges[j] * DaySecs) : j \in 1..Len(ScenarioAges)}
    /\ muted = {}
    /\ reply = NoResp
    /\ chg = ChgUnused

NextAnalytics ==
    \/ GetDashboardData
    \/ GetDashboardIssues
    \/ GetComponentStats
    \/ MuteIssue
    \/ ReplySent

(***************************************************************************)
(* The category loader (components.go): loadCategories, getCategory and    *)
(* GetCategories, called by several goroutines at once.                    *)
(***************************************************************************)
\* 1*time.Minute, in half minutes
ReloadInterval == 2

\* what the file can hold: no file at any of the three paths, text that is
\* not YAML, a category with an empty component list, and two
\* configurations that differ in the map and in the order
CatFiles == {"missing", "malformed", "nocomponents", "first", "second"}

\* newMap and newOrder that loadCategories builds from the YAML document
Parsed(f) ==
    CASE f = "first" ->
            [categoryMap |-> {<<"TiKV", "Storage">>, <<"Chaos", "Resilience">>},
             orderedCategories |-> <<"Storage", "Resilience">>]
      [] f = "second" ->
            [categoryMap |-> {<<"TiKV", "Engine">>},
             orderedCategories |-> <<"Engine">>]
      [] f = "nocomponents" ->
            [categoryMap |-> {}, orderedCategories |-> <<"Spare">>]
      [] OTHER -> [categoryMap |-> {}, orderedCategories |-> <<>>]

\* os.ReadFile succeeded and yaml.Unmarshal returned no error
Loads(f) == f \notin {"missing", "malformed"}

\* the zero time.Time of lastLoaded
ZeroTime == 0 - ReloadInterval

\* time.Since(lastLoaded) < 1*time.Minute && len(categoryMap) > 0
Fresh ==
    /\ catClock - cats.lastLoaded < ReloadInterval
    /\ Cardinality(cats.categoryMap) > 0

LoaderIdle == [pc |-> "idle", parsed |-> Parsed("missing")]

\* the goroutine that holds the write lock is assigning the package variables
Storing == categoryLock # 0

\* the first test of loadCategories, made without the lock: while another
\* goroutine assigns the variables the read races with the write and can
\* give either answer
LoadBegin(p) ==
    /\ loaders[p].pc = "idle"
    /\ \E fresh \in BOOLEAN :
          /\ Storing \/ fresh = Fresh
          /\ loaders' = [loaders EXCEPT ![p].pc = IF fresh THEN "read" ELSE "lock"]
    /\ UNCHANGED <<cats, categoryLock, catFile, catClock, fileReads, seen, nonCats>>

\* categoryLock.Lock(), the second test, os.ReadFile and yaml.Unmarshal; the
\* deferred Unlock runs at every return
LoadLocked(p) ==
    /\ loaders[p].pc = "lock"
    /\ categoryLock = 0
    /\ IF Fresh
       THEN /\ loaders' = [loaders EXCEPT ![p].pc = "read"]
            /\ UNCHANGED <<categoryLock, fileReads>>
       ELSE /\ fileReads.n < MaxFileReads
            /\ fileReads' = [n |-> fileReads.n + 1, last |-> catClock]
            /\ IF Loads(catFile)
               THEN /\ categoryLock' = p
                    /\ loaders' = [loaders EXCEPT ![p] = [pc |-> "storeMap", parsed |-> Parsed(catFile)]]
               ELSE /\ loaders' = [loaders EXCEPT ![p].pc = "read"]
                    /\ UNCHANGED categoryLock
    /\ UNCHANGED <<cats, catFile, catClock, seen, nonCats>>

\* categoryMap = newMap
StoreMap(p) ==
    /\ loaders[p].pc = "storeMap"
    /\ cats' = [cats EXCEPT !.categoryMap = loaders[p].parsed.categoryMap]
    /\ loaders' = [loaders EXCEPT ![p].pc = "storeOrder"]
    /\ UNCHANGED <<categoryLock, catFile, catClock, fileReads, seen, nonCats>>

\* orderedCategories = newOrder
StoreOrder(p) ==
    /\ loaders[p].pc = "storeOrder"
    /\ cats' = [cats EXCEPT !.orderedCategories = loaders[p].parsed.orderedCategories]
    /\ loaders' = [loaders EXCEPT ![p].pc = "storeTime"]
    /\ UNCHANGED <<categoryLock, catFile, catClock, fileReads, seen, nonCats>>

\* lastLoaded = time.Now(), and the deferred Unlock
StoreTime(p) ==
    /\ loaders[p].pc = "storeTime"
    /\ cats' = [cats EXCEPT !.lastLoaded = catClock]
    /\ categoryLock' = 0
    /\ loaders' = [loaders EXCEPT ![p] = [LoaderIdle EXCEPT !.pc = "read"]]
    /\ UNCHANGED <<catFile, catClock, fileReads, seen, nonCats>>

CanRLockAnytime == TRUE

\* categoryLock.RLock() returns only while no goroutine holds the write lock
CanRLock == categoryLock = 0

\* the read-locked section of getCategory (by = "getCategory") and of
\* GetCategories (by = "GetCategories"), with the variables as the section
\* finds them
ReadLocked(p, by) ==
    /\ loaders[p].pc = "read"
    /\ CanRLock
    /\ seen' = [by |-> by,
                categoryMap |-> cats.categoryMap,
                orderedCategories |-> cats.orderedCategories]
    /\ loaders' = [loaders EXCEPT ![p].pc = "idle"]
    /\ UNCHANGED <<cats, categoryLock, catFile, catClock, fileReads, nonCats>>

GetCategoryCall == \E p \in Callers : ReadLocked(p, "getCategory")

GetCategories == \E p \in Callers : ReadLocked(p, "GetCategories")

\* half a minute passes
CatTick ==
    /\ catClock < MaxCatClock
    /\ catClock' = catClock + 1
    /\ UNCHANGED <<cats, categoryLock, loaders, catFile, fileReads, seen, nonCats>>

\* the file is edited, created or removed
CatFileWrite ==
    /\ \E f \in CatFiles \ {catFile} : catFile' = f
    /\ UNCHANGED <<cats, categoryLock, loaders, catClock, fileReads, seen, nonCats>>

NoSeen == [by |-> "none", categoryMap |-> {}, orderedCategories |-> <<>>]

\* the package variables before the first call
CatsStart ==
    /\ cats = [categoryMap |-> {}, orderedCategories |-> <<>>, lastLoaded |-> ZeroTime]
    /\ categoryLock = 0
    /\ loaders = [p \in Callers |-> LoaderIdle]
    /\ catClock = 0
    /\ fileReads = [n |-> 0, last |-> 0]
    /\ seen = NoSeen

CatsUnused == CatsStart /\ catFile = "missing"

NoProbe == [fn |-> "none", arg |-> <<>>, out |-> <<>>]

ProbeUnused == probe = NoProbe

InitCats == CatsStart /\ catFile \in CatFiles

NextCats ==
    \/ \E p \in Callers : LoadBegin(p)
    \/ \E p \in Callers : LoadLocked(p)
    \/ \E p \in Callers : StoreMap(p)
    \/ \E p \in Callers : StoreOrder(p)
    \/ \E p \in Callers : StoreTime(p)
    \/ GetCategoryCall
    \/ GetCategories
    \/ CatTick
    \/ CatFileWrite

\* no SearchAllIssues call in progress
SearchUnused ==
    /\ search = SearchIdle
    /\ reqCount = 0
    /\ sentToken = EmptyToken
    /\ respToken = NoResponse
    /\ delivered = <<>>
    /\ seenTokens = {}
    /\ repeated = FALSE
    /\ afterRepeat = 0

\* the controller before any ingestion has been triggered
CtlUnused ==
    /\ hasUpdater = TRUE
    /\ isUpdating = FALSE
    /\ lastUpdate = "nil"
    /\ manual = [g \in Slots |-> IdleSlot]
    /\ initPc = "none"
    /\ schedPc = "waiting"
    /\ tickPending = "none"
    /\ schedTick = "none"
    /\ respStatus = 0
    /\ lastOutcome = "none"

\* the update controller and its goroutines
Init == InitCtl /\ SearchUnused /\ InitIngest /\ InitNames /\ QueryUnused /\ CatsUnused /\ ProbeUnused

Next == NextCtl

Spec == Init /\ [][Next]_vars

\* one SearchAllIssues call against an arbitrary tracker
SearchInit == CtlUnused /\ InitSearch /\ InitIngest /\ InitNames /\ QueryUnused /\ CatsUnused /\ ProbeUnused

SpecSearch == SearchInit /\ [][NextSearch]_vars

\* ingestion cycles against a tracker whose tickets are created and edited
IngestInit == CtlUnused /\ SearchUnused /\ InitIngest /\ InitNames /\ QueryUnused /\ CatsUnused /\ ProbeUnused

SpecIngest == IngestInit /\ [][NextIngest]_vars

\* the same, with the first partially stored cycle recorded
SpecRerun == IngestInit /\ [][NextRerun]_vars

\* ingestion cycles against a tracker that sends creation stamps in layouts
\* that convertToUTC does not parse
SpecStamp == IngestInit /\ [][NextStamp]_vars

\* goroutines that call Resolve of the one NameResolver
NamesInit == CtlUnused /\ SearchUnused /\ InitIngest /\ InitNames /\ QueryUnused /\ CatsUnused /\ ProbeUnused

SpecNames == NamesInit /\ [][NextNames]_vars

\* the analytics queries over a table of alert rows
AnalyticsInit == CtlUnused /\ SearchUnused /\ IngestUnused /\ InitNames /\ InitAnalytics /\ CatsUnused /\ ProbeUnused

SpecAnalytics == AnalyticsInit /\ [][NextAnalytics]_vars

\* the analytics queries over the table of the window scenario
WindowInit == CtlUnused /\ SearchUnused /\ IngestUnused /\ InitNames /\ InitWindow /\ CatsUnused /\ ProbeUnused

SpecWindow == WindowInit /\ [][NextAnalytics]_vars

\* calculateChange and calcCompChange applied to a pair of counts
ChangeInit ==
    /\ CtlUnused /\ SearchUnused /\ InitIngest /\ InitNames /\ CatsUnused /\ ProbeUnused
    /\ table = {} /\ muted = {} /\ reply = NoResp
    /\ InitChange

SpecChange == ChangeInit /\ [][NextChange]_vars

\* goroutines that call getCategory and GetCategories while the file changes
CatsInit ==
    /\ CtlUnused /\ SearchUnused /\ IngestUnused /\ InitNames /\ QueryUnused
    /\ now = T0
    /\ ProbeUnused
    /\ InitCats

SpecCats == CatsInit /\ [][NextCats]_vars

(***************************************************************************)
(* extractIssueData applied to one ticket of the tracker.                  *)
(***************************************************************************)
\* the words of the summaries and descriptions
ProbeWords == {"disk", "Alert", "Firing", "PROMETHEUS", "firing"}

\* texts of at most MaxWords words
ProbeTexts == UNION {[1..n -> ProbeWords] : n \in 0..MaxWords}

\* the JiraIssue of a ticket with the given summary and description
ProbeIssue(summary, description) ==
    [Key |-> 1, Summary |-> summary, Description |-> description,
     Created |-> FormatJira(T0), Project |-> ProjectOf(1)]

\* the parts that do not take part in a function call
PureUnused ==
    /\ CtlUnused /\ SearchUnused /\ IngestUnused /\ InitNames /\ QueryUnused
    /\ CatsUnused

InitExtract ==
    /\ PureUnused
    /\ now = T0
    /\ \E t \in ProbeTexts, de \in ProbeTexts :
          probe = [fn |-> "args", arg |-> ProbeIssue(t, de), out |-> <<>>]

ExtractIssue ==
    /\ probe.fn = "args"
    /\ probe' = [probe EXCEPT !.fn = "extractIssueData", !.out = extractIssueData(probe.arg)]
    /\ UNCHANGED <<varsCtl, varsSearch, varsIngest, varsNames, varsQuery, varsCats>>

SpecExtract == InitExtract /\ [][ExtractIssue]_vars

(***************************************************************************)
(* The category-tier conditions of the issue list and of the component     *)
(* statistics applied to one row.                                          *)
(***************************************************************************)
\* biz_type strings: those of the table, a string with the serverless
\* marker, a string with two markers, and the empty string
ProbeBizTypes == BizTypes \cup {"TiDB Serverless", "nextgen-devtier", ""}

ProbeRows ==
    {Row(1, [k EXCEPT !.biz_type = b], T0) : k \in RowKinds, b \in ProbeBizTypes}

TierNames == Tiers \ {""}

InitTier ==
    /\ PureUnused
    /\ now = T0
    /\ \E r \in ProbeRows : probe = [fn |-> "args", arg |-> r, out |-> <<>>]

\* the tiers whose condition selects the row, in either handler
TierFilters ==
    /\ probe.fn = "args"
    /\ probe' = [probe EXCEPT
                   !.fn = "category",
                   !.out = [list |-> {t \in TierNames : ListCategory(t, probe.arg)},
                            stats |-> {t \in TierNames : StatsCategory(t, probe.arg)}]]
    /\ UNCHANGED <<varsCtl, varsSearch, varsIngest, varsNames, varsQuery, varsCats>>

SpecTier == InitTier /\ [][TierFilters]_vars

(***************************************************************************)
(* The periods that GetDashboardData and GetComponentStats compute for one *)
(* request.                                                                *)
(***************************************************************************)
\* time.Now().UTC(): every full hour of one day
ProbeInstants == {60 * DaySecs + h * 3600 : h \in 0..23}

\* the days parameter: absent, or 1, 7 or 30 days
ProbeDays == {0, 1, 7, 30}

InitPeriods ==
    /\ PureUnused
    /\ now \in ProbeInstants
    /\ \E q \in Requests, n \in ProbeDays :
          /\ q.env = "all" /\ q.category = "" /\ q.component = "" /\ q.days = 0
          /\ probe = [fn |-> "args", arg |-> [q EXCEPT !.days = n], out |-> <<>>]

\* both handlers compute their periods for the request
Periods ==
    /\ probe.fn = "args"
    /\ probe' = [probe EXCEPT
                   !.fn = "periods",
                   !.out = [dashboard |-> DashboardWindow(probe.arg),
                            stats |-> StatsWindow(probe.arg)]]
    /\ UNCHANGED <<varsCtl, varsSearch, varsIngest, varsNames, varsQuery, varsCats>>

SpecPeriods == InitPeriods /\ [][Periods]_vars

(***************************************************************************)
(* Claims about the update controller.                                     *)
(***************************************************************************)

\* C1: under every interleaving of manual triggers, scheduler ticks and the
\* startup import, at most one ingestion cycle (FetchInitialData or
\* IncrementalUpdate) is executing at any moment.
C1_AtMostOneCycle == RunningCycles <= 1

\* C2: a TriggerUpdate request that arrives while an earlier accepted
\* trigger's cycle has not finished is answered with 409 and starts no
\* background goroutine.
C2_ConflictRejected ==
    [][(TriggerUpdate /\ PendingManual # {})
          => (respStatus' = 409 /\ manual' = manual)]_vars

\* C3: a scheduler tick that fired while an ingestion cycle was executing is
\* skipped and not queued: the scheduler never starts a cycle on account of
\* such a tick.
C3_TickSkipped == schedPc \in {"starting", "running"} => schedTick # "inflight"

\* C4: every cycle that ends, with success or with an error, leaves the
\* running flag cleared: whenever no cycle is executing the flag is false, and
\* a trigger issued then is accepted.
C4_FlagCleared ==
    /\ [](~CycleInFlight => ~isUpdating)
    /\ [][(TriggerUpdate /\ hasUpdater /\ ~CycleInFlight /\ PendingManual = {})
             => respStatus' = 200]_vars

\* a cycle has ended with an error, no cycle is executing, the flag is false
\* and the trigger issued afterwards was accepted
C4_Witness ==
    /\ lastOutcome = "failed"
    /\ ~CycleInFlight
    /\ ~isUpdating
    /\ respStatus = 200
    /\ PendingManual # {}

(***************************************************************************)
(* Claims about SearchAllIssues.                                           *)
(***************************************************************************)

\* C5 (as stated): once the tracker has returned some token value a second
\* time, SearchAllIssues requests at most one more page.
C5_StopsAfterAnyRepeat == afterRepeat <= 1

\* C5 (amended): when the token returned for a request equals the token sent
\* with that request, SearchAllIssues stops there and requests no further
\* page.
C5_StopsOnSameToken ==
    /\ []((respToken \in Tokens /\ respToken = sentToken)
             => (search.pc = "done" /\ search.stop = "repeat"))
    /\ [][search.pc = "done" => reqCount' = reqCount]_vars

\* the tracker answered the second request with the token that was sent
C5_Witness ==
    /\ reqCount = 2
    /\ respToken \in Tokens
    /\ respToken = sentToken
    /\ search.pc = "done"

\* C6: the first request carries the empty token; an empty returned token
\* ends the search, which returns without error the issues of all pages in
\* page order; a returned token equal to the token sent ends it likewise;
\* every later request carries the token the previous page returned, which
\* was neither empty nor equal to the token sent before.
C6_TokenProtocol ==
    /\ [](reqCount = 1 => sentToken = EmptyToken)
    /\ [](respToken = EmptyToken
             => (/\ search.pc = "done"
                 /\ ~search.err
                 /\ search.result = delivered))
    /\ []((respToken \in Tokens /\ respToken = sentToken)
             => (/\ search.pc = "done"
                 /\ ~search.err
                 /\ search.result = delivered))
    /\ [][(reqCount > 0 /\ reqCount' = reqCount + 1)
             => (/\ respToken \in Tokens
                 /\ respToken # sentToken
                 /\ sentToken' = respToken)]_vars

\* two pages with different issues were fetched and the second one carried
\* the empty token
C6_Witness ==
    /\ reqCount = 2
    /\ respToken = EmptyToken
    /\ search.stop = "empty"
    /\ Len(search.result) = 2
    /\ search.result[1] # search.result[2]

\* C7: one call issues at most 500 requests; at the ceiling it stops and
\* returns the issues collected so far without an error.
C7_PageCeiling ==
    /\ reqCount <= 500
    /\ search.stop = "ceiling"
          => (/\ search.pc = "done"
              /\ ~search.err
              /\ search.result = delivered)

\* the ceiling stopped a call that had issued 500 requests and collected issues
C7_Witness ==
    /\ search.stop = "ceiling"
    /\ reqCount = 500
    /\ search.result # <<>>

(***************************************************************************)
(* Claims about the ingestion orchestrator and the store.                  *)
(***************************************************************************)

\* the rows stored under one issue key
RowsOf(k) == {r \in store : r.id = k}

\* a cycle has returned the error of a failed project search
FetchFailed == cyc.pc = "done" /\ cyc.err = "fetch"

\* C8 (as stated): when the search of one project fails, the issues already
\* fetched from the projects searched before it in the same cycle are still
\* extracted and stored.
C8_PartialResultsStored ==
    FetchFailed =>
        \A j \in 1..Len(cyc.dropped) : extractIssueData(cyc.dropped[j]) \in store

\* C8 (amended): when the search of one project fails, the error is returned
\* to the caller with count 0 and the whole cycle is aborted: no issue of the
\* cycle is extracted or stored, those of the projects already searched
\* included.
C8_FetchErrorAbortsCycle ==
    /\ [](FetchFailed =>
            (/\ cyc.retCount = 0
             /\ cyc.allIssues = <<>>
             /\ cyc.i = 0
             /\ cyc.successCount = 0))
    /\ [][(cyc.pc = "fetch" /\ cyc'.pc = "done") => store' = store]_vars

\* the search of a later project failed after an earlier project had
\* delivered an issue, and that issue is not in the store
C8_Witness ==
    /\ FetchFailed
    /\ cyc.dropped # <<>>
    /\ RowsOf(cyc.dropped[1].Key) = {}

\* C9: after any sequence of cycles the store holds exactly one row for each
\* ingested key, equal in every field to the row derived by the most recent
\* successful upsert of that key, and no row for any other key.
C9_OneRowLastWriteWins ==
    \A k \in Keys :
        RowsOf(k) = {lastIngested[k][j] : j \in 1..Len(lastIngested[k])}

\* a stored row has been overwritten by a different row of the same key
C9_Witness ==
    /\ cyc.pc = "done"
    /\ cyc.overwrote
    /\ \E k \in Keys : Cardinality(RowsOf(k)) = 1

\* C10: once a cycle has stored only part of its issues, a later incremental
\* cycle that completes without any failure leaves exactly one row for every
\* tracker issue created from the interrupted cycle's window start up to the
\* later cycle's window end.
C10_NothingMissedAfterRerun ==
    (/\ cyc.pc = "done"
     /\ cyc.kind = "incr"
     /\ cyc.err = "none"
     /\ cyc.afterIntr
     /\ cyc.retCount = cyc.fetched)
    => \A u \in upstream :
          (u.created >= intr.start /\ u.created < FormatMinute(cyc.endDate))
             => Cardinality(RowsOf(u.key)) = 1

\* an incremental cycle has just computed its window and goes on to fetch
IncrementalQueries == cyc.pc # "fetch" /\ cyc'.pc = "fetch" /\ cyc'.kind = "incr"

\* C11 (as stated): the query of an incremental cycle carries a window start
\* equal to the greatest stored creation stamp plus one second (now minus 30
\* days on an empty store) and a window end equal to now.
C11_QueryWindowExact ==
    [][IncrementalQueries =>
         LET w == JqlWindow(cyc'.startDate, cyc'.endDate) IN
         /\ w.to = now
         /\ store = {} => w.from = now - 30 * DaySecs
         /\ store # {} =>
               \E r \in store : /\ \A q \in store : q.created.t <= r.created.t
                                /\ w.from = r.created.t + 1]_vars

\* C11 (amended): an incremental cycle computes its window start as the
\* greatest stored creation stamp plus one second (now minus 30 days on an
\* empty store) and its window end as now, and the query carries both cut
\* down to the minute they lie in.
C11_QueryWindowToTheMinute ==
    [][IncrementalQueries =>
         LET w == JqlWindow(cyc'.startDate, cyc'.endDate) IN
         /\ cyc'.endDate = now
         /\ store = {} => cyc'.startDate = now - 30 * DaySecs
         /\ store # {} =>
               \E r \in store : /\ \A q \in store : q.created.t <= r.created.t
                                /\ cyc'.startDate = r.created.t + 1
         /\ w.from % SecPerMin = 0
         /\ w.from <= cyc'.startDate /\ cyc'.startDate < w.from + SecPerMin
         /\ w.to % SecPerMin = 0
         /\ w.to <= now /\ now < w.to + SecPerMin]_vars

\* an incremental cycle over a non-empty store is fetching with a window
\* start one second past the latest stored stamp, which is not a full minute
C11_Witness ==
    /\ cyc.pc = "fetch"
    /\ cyc.kind = "incr"
    /\ store # {}
    /\ cyc.startDate = LatestDate(store).t + 1
    /\ cyc.startDate % SecPerMin # 0

\* the keys of the first n issues of the batch
KeysUpTo(n) == [j \in 1..n |-> cyc.allIssues[j].Key]

\* C12: a failed upsert at any position does not end the cycle: each of the n
\* fetched issues is passed to processIssue exactly once, in the order of
\* the batch, and the cycle, full or incremental, returns without an error
\* the number of upserts that succeeded.
C12_BatchContinues ==
    /\ cyc.pc = "process" =>
          /\ cyc.attempted = KeysUpTo(cyc.i - 1)
          /\ cyc.attempts = cyc.i - 1
    /\ (cyc.pc = "done" /\ cyc.attempts > 0) => cyc.err = "none"
    /\ (cyc.pc = "done" /\ cyc.err = "none") =>
          /\ cyc.attempts = cyc.fetched
          /\ cyc.retCount = cyc.stored

\* a cycle has fetched two issues, one of the two upserts failed, and it has
\* returned 1 after passing both to processIssue
C12_Witness ==
    /\ cyc.pc = "done"
    /\ cyc.err = "none"
    /\ cyc.fetched = 2
    /\ cyc.attempts = 2
    /\ cyc.retCount = 1

(***************************************************************************)
(* Claims about the name resolver.                                         *)
(***************************************************************************)

\* a goroutine sends its GET request
Looks(p) == calls[p].pc = "get" /\ calls'[p].pc # "get"

\* C13: under every interleaving of Resolve calls the lookup service answers
\* at most one request for an id with success, and once a request for the id
\* has succeeded no further request is sent for it: every other call is
\* served from the cache.
C13_OneSuccessfulLookup ==
    /\ [](\A id \in Ids : okCalls[id] <= 1)
    /\ [][\A p \in Callers : Looks(p) => okCalls[calls[p].id] = 0]_vars

\* C14: a failed lookup of a numeric id returns the id as the name together
\* with the error and leaves the cache unchanged; as long as no lookup of the
\* id has succeeded the id is not in the cache, and every Resolve of it sends
\* a request to the service again.
C14_FailureNotCached ==
    /\ [][\A p \in Callers :
            (Looks(p) /\ calls'[p].pc = "done") =>
               /\ calls'[p].err \in LookupErrors
               /\ calls'[p].info.Name = calls[p].id
               /\ calls'[p].info.ID = calls[p].id
               /\ cache' = cache]_vars
    /\ [](\A id \in Ids : okCalls[id] = 0 => ~InCache(cache, id))
    /\ [][\A p \in Callers :
            (/\ calls[p].pc \in {"idle", "done"}
             /\ calls'[p] # calls[p]
             /\ isNumeric(calls'[p].id)
             /\ okCalls[calls'[p].id] = 0) => calls'[p].pc = "get"]_vars

\* a lookup of an id has failed, the caller holds the fallback and the error,
\* the id is not cached and a second request has been sent for it
C14_Witness ==
    \E p \in Callers :
        /\ calls[p].pc = "done"
        /\ calls[p].err \in LookupErrors
        /\ calls[p].info.Name = calls[p].id
        /\ ~InCache(cache, calls[p].id)
        /\ extCalls[calls[p].id] >= 2

\* the ids that are not empty and not purely decimal digits
NonNumeric == {id \in Ids : id # <<>> /\ \E j \in 1..Len(id) : id[j] \notin 48..57}

\* C15: Resolve of a non-empty id that is not purely decimal digits returns
\* the id as the name without an error, sends no request to the service and
\* leaves the cache unchanged.
C15_NonNumericEchoed ==
    /\ [](\A id \in NonNumeric : extCalls[id] = 0 /\ ~InCache(cache, id))
    /\ [][\A p \in Callers :
            (/\ calls[p].pc \in {"idle", "done"}
             /\ calls'[p] # calls[p]
             /\ calls'[p].id \in NonNumeric) =>
               /\ calls'[p] = ResDone(calls'[p].id, Fallback(calls'[p].id), "none")
               /\ calls'[p].info.Name = calls'[p].id
               /\ cache' = cache
               /\ extCalls' = extCalls]_vars

\* a Resolve of ":0", whose first code point follows that of '9', has
\* returned the id as the name without an error
C15_Witness ==
    \E p \in Callers :
        /\ calls[p].pc = "done"
        /\ calls[p].id = <<58, 48>>
        /\ calls[p].info.Name = <<58, 48>>
        /\ calls[p].err = "none"
        /\ extCalls[calls[p].id] = 0

(***************************************************************************)
(* Claims about the analytics queries.                                     *)
(***************************************************************************)

\* the reply answers one of the three analytics queries
IsQueryReply == reply.endpoint \in {"dashboard", "issues", "stats"}

\* the ids of the trend rows
TrendIds == UNION {b.ids : b \in reply.trend}

\* every issue that the reply counts or lists
ResultIds == reply.current \cup reply.previous \cup reply.list \cup TrendIds

RowOf(id) == CHOOSE r \in table : r.id = id

\* C16: once an issue is muted it is in the result of no analytics query:
\* not in the totals and the trend of the global dashboard, not in the
\* component statistics, not in the issue list.
C16_MutedExcluded == IsQueryReply => ResultIds \cap muted = {}

\* the reply of the same request for the pseudo-component old-rules
LegacyReply ==
    IF reply.endpoint = "stats"
    THEN ComponentStats([reply.q EXCEPT !.component = "old-rules"], reply.excluded)
    ELSE DashboardIssues([reply.q EXCEPT !.component = "old-rules"])

\* no issue of the reply is in the same period or list of old-rules
DisjointFromLegacy ==
    /\ reply.current \cap LegacyReply.current = {}
    /\ reply.previous \cap LegacyReply.previous = {}
    /\ reply.list \cap LegacyReply.list = {}

\* C17 (as stated): an issue counted in the pseudo-component old-rules is
\* counted for no other component queried for the same window.
C17_LegacyExclusive ==
    (/\ reply.endpoint \in {"stats", "issues"}
     /\ reply.q.component \notin {"", "old-rules"}) => DisjointFromLegacy

\* C17 (amended): an issue counted in the pseudo-component old-rules is
\* counted for no other component queried for the same window, unless the
\* category of that component is Resilience or Serverless.
C17_LegacyExclusiveOfGoverned ==
    (/\ reply.endpoint \in {"stats", "issues"}
     /\ reply.q.component \notin {"", "old-rules"}
     /\ getCategory(reply.q.component) \notin {"Resilience", "Serverless"})
    => DisjointFromLegacy

\* the statistics of TiKV were queried without any other restriction over a
\* row of TiKV that old-rules counts, and the row is not counted for TiKV
C17_Witness ==
    /\ reply.endpoint = "stats"
    /\ reply.q.component = "TiKV"
    /\ reply.q.env = "all"
    /\ reply.q.category = ""
    /\ reply.excluded = {}
    /\ \E r \in table :
          /\ ComponentsLike(r, "TiKV")
          /\ r.id \in LegacyReply.current
          /\ r.id \notin reply.current

\* C18: every issue in the result of an analytics query satisfies all the
\* filters of the request at once, each with the value the caller supplied:
\* the environment, the category tier, the muted exclusion and the component
\* scope.
C18_AllFiltersApplied ==
    IsQueryReply =>
        \A id \in ResultIds :
            LET r == RowOf(id) IN
            /\ SignatureEnv(reply.q.env, r)
            /\ reply.endpoint \in {"issues", "stats"} => ListCategory(reply.q.category, r)
            /\ id \notin muted
            /\ reply.q.component \in DOMAIN categoryMap
                  => ComponentsLike(r, reply.q.component)

\* C19: for non-negative counts both functions return change 0 and neutral
\* when both counts are 0, change 100 and up when only previous is 0, and
\* otherwise (current - previous) / previous * 100 with the trend given by
\* its sign; previous 5, current 10 gives 100 and up, previous 10, current 5
\* gives -50 and down.
C19_ChangeAndTrend ==
    chg.pc = "done" =>
        \A r \in {chg.dash, chg.comp} :
            LET c == chg.current
                p == chg.previous
            IN  /\ r.change.den > 0
                /\ (p = 0 /\ c = 0) => (r.change.num = 0 /\ r.trend = "neutral")
                /\ (p = 0 /\ c > 0) => (r.change.num = 100 * r.change.den /\ r.trend = "up")
                /\ p > 0 =>
                      /\ r.change.num * p = (c - p) * 100 * r.change.den
                      /\ r.trend = IF c > p THEN "up" ELSE IF c < p THEN "down" ELSE "neutral"
                /\ (p = 5 /\ c = 10) => (r.change.num = 100 * r.change.den /\ r.trend = "up")
                /\ (p = 10 /\ c = 5) => (r.change.num = (-50) * r.change.den /\ r.trend = "down")

\* both functions were called with previous 10 and current 5 and returned down
C19_Witness ==
    /\ chg.pc = "done"
    /\ chg.previous = 10
    /\ chg.current = 5
    /\ chg.dash.trend = "down"
    /\ chg.comp.trend = "down"

\* the table holds exactly the three tickets created 3, 10 and 40 days ago
\* and the reply is that of an aggregation query with days=7 whose other
\* parameters restrict nothing
WindowScenario ==
    /\ Cardinality(table) = 3
    /\ \A j \in 1..3 : \E r \in table : r.created = now - ScenarioAges[j] * DaySecs
    /\ reply.endpoint \in {"dashboard", "stats"}
    /\ reply.q.days = 7
    /\ reply.q.env = "all"
    /\ reply.endpoint = "dashboard" => reply.q.component = ""
    /\ reply.endpoint = "stats" => reply.list = IdsOf(table)

AgedDays(n) == {r.id : r \in {x \in table : x.created = now - n * DaySecs}}

\* the trend has exactly one row, and it counts the ticket of 3 days ago
OneBucket ==
    /\ Cardinality(reply.trend) = 1
    /\ \A b \in reply.trend : b.ids = AgedDays(3)

\* C20 (as stated): in the scenario the current total counts only the ticket
\* of 3 days ago, the previous total counts no ticket, and the daily trend
\* has exactly one non-zero bucket.
C20_PreviousEmpty ==
    WindowScenario =>
        /\ reply.current = AgedDays(3)
        /\ reply.previous = {}
        /\ OneBucket

\* C20 (amended): in the scenario the current total counts only the ticket
\* of 3 days ago, the previous total counts only the ticket of 10 days ago,
\* which lies in the previous window of days 7 to 14, and the daily trend
\* has exactly one non-zero bucket.
C20_PreviousCountsTenDays ==
    WindowScenario =>
        /\ reply.current = AgedDays(3)
        /\ reply.previous = AgedDays(10)
        /\ OneBucket

\* the scenario was queried at the component statistics and the previous
\* total counts one ticket
C20_Witness ==
    /\ WindowScenario
    /\ reply.endpoint = "stats"
    /\ Cardinality(reply.previous) = 1
    /\ Cardinality(reply.current) = 1

\* C21: between any two reads of the category file at least the reload
\* interval elapses, whatever the number of calls and whatever the previous
\* load found (no file, a parse error, a file that defines no components).
C21_ReloadDebounced ==
    [][(fileReads'.n > fileReads.n /\ fileReads.n > 0)
           => catClock - fileReads.last >= ReloadInterval]_vars

\* the configurations of the completed loads, and that of no load
CompletedLoads ==
    {Parsed(f) : f \in {g \in CatFiles : Loads(g)}} \cup {Parsed("missing")}

\* C26: the map and the order that a read-locked section of getCategory or
\* GetCategories finds come from one and the same completed load, under
\* every interleaving with the goroutines that reload.
C26_ReadersSeeOneLoad ==
    seen.by # "none" =>
        \E l \in CompletedLoads :
            /\ seen.categoryMap = l.categoryMap
            /\ seen.orderedCategories = l.orderedCategories

\* a goroutine has assigned the new map and not yet the new order, both
\* differ from what was loaded before, another goroutine waits for the read
\* lock, and an earlier section has read the configuration loaded before
C26_Witness ==
    /\ seen.by # "none"
    /\ seen.categoryMap # {}
    /\ \E p, q \in Callers :
          /\ loaders[p].pc = "storeOrder"
          /\ cats.categoryMap # seen.categoryMap
          /\ cats.orderedCategories = seen.orderedCategories
          /\ loaders[q].pc = "read"

\* C22: without tracker credentials (no data updater) no ingestion cycle is
\* started by the manual trigger, the scheduler or the startup import, every
\* manual trigger is answered 503, and the running flag stays false.
C22_DisabledWithoutCredentials ==
    ~hasUpdater =>
        /\ RunningCycles = 0
        /\ PendingManual = {}
        /\ initPc = "none"
        /\ schedPc = "off"
        /\ respStatus \in {0, 503}
        /\ isUpdating = FALSE

\* a manual trigger was answered by a controller without data updater
C22_Witness ==
    /\ ~hasUpdater
    /\ respStatus = 503
    /\ isUpdating = FALSE

\* C28: whenever an ingestion cycle is executing the running flag is true;
\* the end of one cycle never clears the flag while another cycle is still
\* executing.
C28_FlagWhileCycleRuns == CycleInFlight => isUpdating = TRUE

Keywords == {"alert", "firing", "prometheus"}

\* C23: extractIssueData sets the alert flag exactly when the description or
\* the title contains, in any case, one of the keywords alert, firing,
\* prometheus, and sets the alert signature to the title when the flag is
\* set and to the empty string otherwise.
C23_AlertFlagAndSignature ==
    probe.fn = "extractIssueData" =>
        /\ probe.out.is_alert =
              (\E kw \in Keywords :
                  \/ ContainsLower(probe.arg.Description, kw)
                  \/ ContainsLower(probe.arg.Summary, kw))
        /\ probe.out.alert_signature =
              IF probe.out.is_alert THEN probe.arg.Summary ELSE <<>>

\* the tier the claim gives a biz_type string
TierOf(biz) ==
    IF BizLike(biz, "nextgen") THEN "premium"
    ELSE IF BizLike(biz, "devtier") \/ BizLike(biz, "TiDB Serverless") THEN "essential"
    ELSE "dedicated"

\* C24: for every biz_type string exactly one of the three tier filters
\* selects an issue with it: premium when it contains the nextgen marker,
\* otherwise essential when it contains a devtier or serverless marker,
\* otherwise dedicated.
C24_ExactlyOneTier ==
    probe.fn = "category" =>
        /\ probe.out.list = {TierOf(probe.arg.biz_type)}
        /\ probe.out.stats = {TierOf(probe.arg.biz_type)}

\* C30: for every tier and every biz_type value the tier filter of the
\* component statistics and that of the issue list select the same issues.
C30_SameTierFilter ==
    probe.fn = "category" => probe.out.list = probe.out.stats

\* the previous period ends where the current one starts and both are as
\* long as the requested number of days
AdjacentEqualPeriods(w, q) ==
    /\ w.prevEnd = w.start
    /\ w.end - w.start = DaysOf(q) * DaySecs
    /\ w.prevEnd - w.prevStart = DaysOf(q) * DaySecs

\* C25: for every aggregation query the previous window immediately precedes
\* the current window and has the same length, the requested number of
\* days, in the global dashboard and in the component statistics.
C25_AdjacentEqualWindows ==
    probe.fn = "periods" =>
        /\ AdjacentEqualPeriods(probe.out.dashboard, probe.arg)
        /\ AdjacentEqualPeriods(probe.out.stats, probe.arg)

\* a Resolve call for the id has returned the info without error
ReturnedInfo(id, info) ==
    \E p \in Callers :
        /\ calls[p].pc = "done"
        /\ calls[p].err = "none"
        /\ calls[p].id = id
        /\ calls[p].info = info

\* C27: once a Resolve call for a numeric id has returned a NameInfo without
\* error, the cache entry of the id is never removed or replaced, under any
\* interleaving of concurrent Resolve calls.
C27_EntryNeverReplaced ==
    [][\A e \in cache :
          (isNumeric(e.id) /\ ReturnedInfo(e.id, e.info)) => e \in cache']_vars

\* the greatest value of the created column is a stamp that was stored unparsed
LatestUnparsed == HasLatest(store) /\ ~ParsesAsStored(LatestDate(store))

====
